---- MODULE Spec2Model ----
(***************************************************************************)
(* A model of lib/Installer.js: the Installer constructor's graph of       *)
(* promises (root cache directory, version resolution, per-version cache   *)
(* directory, checksum manifest, the two verified downloads), install(),   *)
(* parseShasumFile and validateShasum.                                     *)
(*                                                                         *)
(* Every asynchronous operation of the source (mkdirp, request, fs.exists, *)
(* a stream reaching "finish" or "error") is one action: the callback the  *)
(* source registers for it.  JavaScript runs a callback to completion and  *)
(* the promise library drains its queue of continuations before the next   *)
(* I/O callback is delivered, so an action also holds every Promise.join   *)
(* and .then continuation its settlement triggers.                         *)
(***************************************************************************)
EXTENDS Integers, Sequences, FiniteSets, TLC

\* ------------------------------------------------------------------ bounds
\* install() calls made on one Installer.
MaxInstalls == 2
\* Installers constructed one after the other over the same on-disk cache.
MaxSessions == 2
\* Length of the release index of the version-resolution specification.
MaxIndexLen == 3
\* Lines of the manifest of the manifest-parsing specification.
MaxLines == 3

\* --------------------------------------------------------------- semver
\* A version is <<major, minor, patch>>; a release's version string is the
\* version with vs leading "v" characters: [vs |-> 1, ver |-> <<1,3,0>>] is
\* "v1.3.0".
VersionString(s) ==
    (IF s.vs = 0 THEN "" ELSE IF s.vs = 1 THEN "v" ELSE "vv")
        \o ToString(s.ver[1]) \o "." \o ToString(s.ver[2]) \o "." \o ToString(s.ver[3])

\* release.version.replace(/^v/, ""): one leading "v" is removed, if any.
StripV(s) == IF s.vs > 0 THEN [s EXCEPT !.vs = s.vs - 1] ELSE s

\* semver's compare: -1, 0, 1 on <<major, minor, patch>>.
compare(a, b) ==
    IF a[1] # b[1] THEN (IF a[1] < b[1] THEN -1 ELSE 1)
    ELSE IF a[2] # b[2] THEN (IF a[2] < b[2] THEN -1 ELSE 1)
    ELSE IF a[3] # b[3] THEN (IF a[3] < b[3] THEN -1 ELSE 1)
    ELSE 0

\* A selector is [kind, ver]: "caret" is ^ver, "tilde" is ~ver, "exact" is
\* ver, "major" is M.x, "any" is *, "invalid" is a string that is no range.
validRange_Always(sel) == TRUE

validRange(sel) == sel.kind # "invalid"

\* The upper end (exclusive) of a caret range: ^1.2.3 < 2.0.0, ^0.2.3 <
\* 0.3.0, ^0.0.3 < 0.0.4.
CaretUpper(v) ==
    IF v[1] > 0 THEN <<v[1] + 1, 0, 0>>
    ELSE IF v[2] > 0 THEN <<0, v[2] + 1, 0>>
    ELSE <<0, 0, v[3] + 1>>

\* semver.satisfies on a version string: a string that is no version (a "v"
\* too many) satisfies nothing.
satisfies(s, sel) ==
    /\ s.vs <= 1
    /\ CASE sel.kind = "caret" ->
                compare(s.ver, sel.ver) >= 0 /\ compare(s.ver, CaretUpper(sel.ver)) < 0
         [] sel.kind = "tilde" ->
                compare(s.ver, sel.ver) >= 0
                    /\ compare(s.ver, <<sel.ver[1], sel.ver[2] + 1, 0>>) < 0
         [] sel.kind = "exact" -> compare(s.ver, sel.ver) = 0
         [] sel.kind = "major" -> s.ver[1] = sel.ver[1]
         [] sel.kind = "any" -> TRUE
         [] OTHER -> FALSE

\* The null of JavaScript, as a version string.
Null == [vs |-> 0, ver |-> <<0 - 1, 0, 0>>]

\* semver.maxSatisfying scans the list and keeps the greatest satisfying
\* element seen so far (a later equal one does not replace it).
RECURSIVE MaxScan(_, _, _, _)
MaxScan(versions, sel, i, max) ==
    IF i > Len(versions) THEN max
    ELSE IF satisfies(versions[i], sel)
             /\ (max = Null \/ compare(max.ver, versions[i].ver) = -1)
         THEN MaxScan(versions, sel, i + 1, versions[i])
         ELSE MaxScan(versions, sel, i + 1, max)

RECURSIVE FirstScan(_, _, _)
FirstScan(versions, sel, i) ==
    IF i > Len(versions) THEN Null
    ELSE IF satisfies(versions[i], sel) THEN versions[i]
    ELSE FirstScan(versions, sel, i + 1)

maxSatisfying_First(versions, sel) == FirstScan(versions, sel, 1)

maxSatisfying(versions, sel) == MaxScan(versions, sel, 1, Null)

\* index.map(function (release) { return release.version.replace(/^v/, "") })
Versions(index) == [i \in 1..Len(index) |-> StripV(index[i])]

\* The satisfyingVersion of the request callback: a version string, or Null.
satisfyingVersion(index, sel) == maxSatisfying(Versions(index), sel)

\* ------------------------------------------------------------ file names
\* this._opts: the platform and the architecture of the build.
opts == [platform |-> "linux", arch |-> "x64"]

installerFileName(v) ==
    "iojs-v" \o v \o "-" \o opts.platform \o "-" \o opts.arch \o ".tar.gz"

srcFileName(v) == "iojs-v" \o v \o ".tar.xz"

\* this._installerFileUrl and this._srcFileUrl.
fileUrl(v, name) == "https://iojs.org/dist/v" \o v \o "/" \o name

\* The two artifacts of an Installer: this._installerFile, this._srcFile.
ArtifactSet == {"installer", "src"}

fileName(a, v) == IF a = "installer" THEN installerFileName(v) ELSE srcFileName(v)

\* path.resolve(__dirname, "..", "cache")
CacheRoot == "cache"

\* path.resolve(downloadCacheDir, version)
VersionDir(root, v) == root \o "/" \o v

\* path.join(cacheDir, name)
PathJoin(dir, name) == dir \o "/" \o name

cachedShasumFilePath(dir) == PathJoin(dir, "SHASUM256.txt")

\* ------------------------------------------------------------- the manifest
\* A line is a sequence of tokens: " " is one whitespace character, any
\* other token is a run of characters that are not whitespace.
IsSpace(t) == t = " "

\* The number of whitespace characters of line from position p on.
RECURSIVE SpaceRun(_, _)
SpaceRun(line, p) ==
    IF p <= Len(line) /\ IsSpace(line[p]) THEN 1 + SpaceRun(line, p + 1) ELSE 0

\* line.match(/^(.+?)\s+(.+?)\s*$/) with the first group ending at i: the
\* whitespace after it is followed by a character for the second group,
\* which is a whitespace character when nothing else is left.
MatchesAt(line, i) ==
    LET r == SpaceRun(line, i + 1)
    IN  r >= 1 /\ (i + r < Len(line) \/ r >= 2)

\* The first group is the shortest that lets the line match.
FirstGroupEnd(line) ==
    IF \E i \in 1..Len(line) : MatchesAt(line, i)
    THEN CHOOSE i \in 1..Len(line) :
            MatchesAt(line, i) /\ \A j \in 1..(i - 1) : ~MatchesAt(line, j)
    ELSE 0

\* The last position of line that holds no whitespace (0 when none does).
RECURSIVE LastNonSpace(_, _)
LastNonSpace(line, p) ==
    IF p = 0 THEN 0 ELSE IF IsSpace(line[p]) THEN LastNonSpace(line, p - 1) ELSE p

RECURSIVE JoinTokens(_)
JoinTokens(ts) == IF ts = <<>> THEN "" ELSE Head(ts) \o JoinTokens(Tail(ts))

\* parts of the match: <<parts[1], parts[2]>>, or <<>> for no match.
LineParts(line) ==
    LET i == FirstGroupEnd(line)
        r == SpaceRun(line, i + 1)
    IN  IF i = 0 THEN <<>>
        ELSE <<JoinTokens(SubSeq(line, 1, i)),
               IF i + r < Len(line)
               THEN JoinTokens(SubSeq(line, i + r + 1, LastNonSpace(line, Len(line))))
               ELSE " ">>

\* shasums[parts[2]] = parts[1]
Put_FirstWins(m, k, v) ==
    [n \in DOMAIN m \cup {k} |-> IF n \in DOMAIN m THEN m[n] ELSE v]

Put(m, k, v) == [n \in DOMAIN m \cup {k} |-> IF n = k THEN v ELSE m[n]]

NoShasums == [n \in {} |-> ""]

RECURSIVE ParseLines(_, _, _)
ParseLines(lines, i, acc) ==
    IF i > Len(lines) THEN acc
    ELSE LET parts == LineParts(lines[i])
         IN  ParseLines(lines, i + 1,
                        IF parts # <<>> THEN Put(acc, parts[2], parts[1]) ELSE acc)

\* The object parseShasumFile resolves to, for a file holding these lines.
parseShasumFile(lines) == ParseLines(lines, 1, NoShasums)

\* --------------------------------------------------------------- digests
\* hash.read().toString("hex") of a file's content: lower-case hex, and two
\* contents never share a digest.
Sha256(content) == "5a:" \o content

\* ------------------------------------------------------------ the servers
\* What iojs.org may answer.  The index of a session is one of IndexBodies.
V(vs, a, b, c) == [vs |-> vs, ver |-> <<a, b, c>>]

IndexBodies ==
    { <<V(1, 1, 2, 0), V(1, 1, 3, 0), V(1, 1, 2, 5)>>,
      <<V(1, 2, 0, 0)>> }

\* The selectors an Installer is constructed with.
Selectors ==
    { [kind |-> "caret", ver |-> <<1, 2, 0>>],
      [kind |-> "invalid", ver |-> <<0, 0, 0>>] }

\* The bytes of the release's archive, which iojs.org serves at url.
Genuine(url) == "tarball:" \o url

\* The body of a response whose status is not 200.
ErrorPage == "404 page"

\* Bytes that are not the release's, served with status 200.
Tampered == "other bytes"

\* What a download that broke off leaves of a file.
Partial == "partial"

\* The manifest of a release: a line, digest, two blanks, name, for every
\* archive and an empty one after the last line break; and a manifest that
\* lacks the line of the source archive.
ManifestLine(v, name) == <<Sha256(Genuine(fileUrl(v, name))), " ", " ", name>>

GoodManifest(v) ==
    <<ManifestLine(v, installerFileName(v)), ManifestLine(v, srcFileName(v)), <<>>>>

NoSrcManifest(v) == <<ManifestLine(v, installerFileName(v)), <<>>>>

\* A digest is hex digits: the letters of "5a:..." written in upper case,
\* and in lower case again.
UpperCase(d) ==
    IF Len(d) >= 3 /\ SubSeq(d, 1, 3) = "5a:" THEN "5A:" \o SubSeq(d, 4, Len(d)) ELSE d

LowerCase(d) ==
    IF Len(d) >= 3 /\ SubSeq(d, 1, 3) = "5A:" THEN "5a:" \o SubSeq(d, 4, Len(d)) ELSE d

\* The manifest of a release with its digests in upper-case hex.
UpperManifestLine(v, name) == <<UpperCase(Sha256(Genuine(fileUrl(v, name)))), " ", " ", name>>

UpperManifest(v) ==
    <<UpperManifestLine(v, installerFileName(v)), UpperManifestLine(v, srcFileName(v)), <<>>>>

ErrorPageManifest == << <<"404", " ", "Not", " ", "Found">>, <<>> >>

\* Responses to the manifest request and to an artifact request: the code
\* pipes the body whatever the status is.
ManifestResponses(v) ==
    { [status |-> 200, body |-> GoodManifest(v)],
      [status |-> 200, body |-> NoSrcManifest(v)],
      [status |-> 200, body |-> UpperManifest(v)],
      [status |-> 404, body |-> ErrorPageManifest] }

FileResponses(url) ==
    { [status |-> 200, body |-> Genuine(url)],
      [status |-> 200, body |-> Tampered],
      [status |-> 404, body |-> ErrorPage] }

\* --------------------------------------------------------------- promises
Pending == [state |-> "pending", value |-> "", reason |-> ""]

Resolved(v) == [state |-> "resolved", value |-> v, reason |-> ""]

Rejected(r) == [state |-> "rejected", value |-> "", reason |-> r]

\* The promise of the manifest holds an object, not a string.
PendingShasums == [state |-> "pending", value |-> NoShasums, reason |-> ""]

ResolvedShasums(m) == [state |-> "resolved", value |-> m, reason |-> ""]

\* A promise that waits for a rejected one is rejected with its reason.
RejectPending(p, r) == IF p.state = "pending" THEN [p EXCEPT !.state = "rejected", !.reason = r] ELSE p

\* The errors of the source, by the place that makes them.
ErrMkdirpRoot == "mkdirp cache"
ErrMkdirpVersion == "mkdirp version"
ErrIndexRequest == "index: request error"
ErrIndexStatus == "index: Unexpected status code"
ErrIndexContentType == "index: Unexpected Content-Type"
ErrIndexJson == "index: JSON.parse"
ErrNoVersion == "No version satisfies semver range"
ErrShasumsRequest == "shasums: request error"
ErrShasumsWrite == "shasums: write error"
ErrShasumsRead == "shasums: read error"
ErrMissing(a) == a \o ": Could not find installer file in shasum list!"
ErrRequest(a) == a \o ": request error"
ErrWrite(a) == a \o ": write error"
ErrRead(a) == a \o ": read error"
ErrMismatch(a) == a \o ": expected sha256 but got"
ErrCallback == "callback threw"

\* ------------------------------------------------------------------ state
VARIABLES
    dirs,                        \* the directories on disk
    files,                       \* the files on disk: path -> content
    session,                     \* Installers constructed so far
    ctor,                        \* "none", "ok", or "threw" (invalid selector)
    versionSelector,
    pc,                          \* where each asynchronous pipeline stands
    downloadCacheDir,            \* this._downloadCacheDir
    version,                     \* this._version
    downloadCacheDirForVersion,  \* this._downloadCacheDirForVersion
    shasums,                     \* this._shasums
    cachedFile,                  \* this._installerFile and this._srcFile
    installs,                    \* the install() calls and their callbacks' invocations
    index,                       \* the response to the index request: [outcome, body]
    isCached,                    \* what fs.exists answered: "unknown", "yes", "no"
    status,                      \* the status of the response piped to a file (0: none)
    shasum,                      \* the digest validateShasum computed ("": none)
    count,                       \* operations started in this session
    failures                     \* the errors of this session, in order of occurrence

vars == <<dirs, files, session, ctor, versionSelector, pc, downloadCacheDir, version,
          downloadCacheDirForVersion, shasums, cachedFile, installs, index, isCached,
          status, shasum, count, failures>>

disk == <<dirs, files>>

Pipelines == {"root", "index", "version", "shasums", "installer", "src"}

Targets == {"shasums", "installer", "src"}

\* The operations count counts: <<what, kind>>.
Ops ==
    { <<"root", "mkdirp">>, <<"index", "request">>, <<"version", "mkdirp">> }
        \cup (Targets \X {"exists", "request", "write", "read"})

Bump(c, op) == [c EXCEPT ![op] = c[op] + 1]

installerFile == cachedFile["installer"]

srcFile == cachedFile["src"]

NoIndex == [outcome |-> "none", body |-> <<>>]

\* The state of a session before its constructor has started anything.
Fresh ==
    /\ pc = [p \in Pipelines |-> "idle"]
    /\ downloadCacheDir = Pending
    /\ version = Pending
    /\ downloadCacheDirForVersion = Pending
    /\ shasums = PendingShasums
    /\ cachedFile = [a \in ArtifactSet |-> Pending]
    /\ installs = <<>>
    /\ index = NoIndex
    /\ isCached = [t \in Targets |-> "unknown"]
    /\ status = [t \in Targets |-> 0]
    /\ shasum = [a \in ArtifactSet |-> ""]
    /\ count = [o \in Ops |-> 0]
    /\ failures = <<>>

Init ==
    /\ dirs = {}
    /\ files = [f \in {} |-> ""]
    /\ session = 0
    /\ ctor = "none"
    /\ versionSelector = [kind |-> "invalid", ver |-> <<0, 0, 0>>]
    /\ Fresh

\* No callback of the session is outstanding.
Quiescent ==
    \A p \in Pipelines : pc[p] \in {"idle", "done", "thrown"}

\* ---------------------------------------------------------------- install
\* new Installation(version)
Installation(v) == [version |-> v]

NoInstallation == [version |-> "undefined"]

\* One invocation of the callback of install(): cb(err) or cb(null, installation).
CbError(r) == [err |-> r, installation |-> NoInstallation]

CbSuccess(v) == [err |-> "null", installation |-> Installation(v)]

\* Promise.join(this._version, this._installerFile, this._srcFile, ...): the
\* state of the join over its three inputs.  It is rejected with the reason
\* of the first rejected input; inputs that are already rejected when the
\* join is made are looked at in the order of the arguments.
JoinInputs(v, f) == <<v, f["installer"], f["src"]>>

JoinState(in) ==
    IF \E i \in 1..Len(in) : in[i].state = "rejected" THEN "rejected"
    ELSE IF \A i \in 1..Len(in) : in[i].state = "resolved" THEN "resolved"
    ELSE "pending"

JoinReason(in) ==
    in[CHOOSE i \in 1..Len(in) :
            in[i].state = "rejected" /\ \A j \in 1..(i - 1) : in[j].state # "rejected"].reason

\* The invocations of cb the settled join leads to: the join's function calls
\* cb(null, installation), and an exception it throws rejects the promise
\* the .then(null, ...) handler listens to, which calls cb(err).
Invocations(c, v, f) ==
    LET in == JoinInputs(v, f)
    IN  IF JoinState(in) = "rejected" THEN <<CbError(JoinReason(in))>>
        ELSE IF c.throws THEN <<CbSuccess(v.value), CbError(ErrCallback)>>
        ELSE <<CbSuccess(v.value)>>

SettleCall(c, v, f) ==
    IF c.state = "pending" /\ JoinState(JoinInputs(v, f)) # "pending"
    THEN [c EXCEPT !.state = "settled", !.calls = Invocations(c, v, f)]
    ELSE c

SettleAll(calls, v, f) == [i \in DOMAIN calls |-> SettleCall(calls[i], v, f)]

\* ---------------------------------------------------------------- actions
\* A rejection reaches every promise that waits for the rejected one, and
\* through them the pending install() calls.
Cascade(r) ==
    /\ downloadCacheDirForVersion' = RejectPending(downloadCacheDirForVersion, r)
    /\ shasums' = RejectPending(shasums, r)
    /\ cachedFile' = [a \in ArtifactSet |-> RejectPending(cachedFile[a], r)]
    /\ failures' = Append(failures, r)

\* new Installer(targetPath, versionSelector, opts), on the disk the earlier
\* sessions left.
Construct(sel) ==
    /\ session < MaxSessions
    /\ Quiescent
    /\ session' = session + 1
    /\ versionSelector' = sel
    /\ downloadCacheDir' = Pending
    /\ version' = Pending
    /\ downloadCacheDirForVersion' = Pending
    /\ shasums' = PendingShasums
    /\ cachedFile' = [a \in ArtifactSet |-> Pending]
    /\ installs' = <<>>
    /\ index' = NoIndex
    /\ isCached' = [t \in Targets |-> "unknown"]
    /\ status' = [t \in Targets |-> 0]
    /\ shasum' = [a \in ArtifactSet |-> ""]
    /\ failures' = <<>>
    /\ IF validRange(sel)
       THEN /\ ctor' = "ok"
            /\ pc' = [p \in Pipelines |->
                        IF p = "root" THEN "mkdirp" ELSE IF p = "index" THEN "request" ELSE "idle"]
            /\ count' = [o \in Ops |->
                        IF o \in {<<"root", "mkdirp">>, <<"index", "request">>} THEN 1 ELSE 0]
       ELSE /\ ctor' = "threw"
            /\ pc' = [p \in Pipelines |-> "idle"]
            /\ count' = [o \in Ops |-> 0]
    /\ UNCHANGED disk

\* Promise.join(this._version, this._downloadCacheDir, ...) runs its function
\* once both are resolved: mkdirp of the version's directory starts.
VersionMkdirStarts_Early(v, d) == v.state = "resolved"

VersionMkdirStarts(v, d) == v.state = "resolved" /\ d.state = "resolved"

\* The callback of mkdirp(cacheDir) for the root cache directory.
RootMkdirpDone(ok) ==
    /\ pc["root"] = "mkdirp"
    /\ IF ok
       THEN /\ dirs' = dirs \cup {CacheRoot}
            /\ downloadCacheDir' = Resolved(CacheRoot)
            /\ IF VersionMkdirStarts(version, downloadCacheDir')
               THEN /\ pc' = [pc EXCEPT !["root"] = "done", !["version"] = "mkdirp"]
                    /\ count' = Bump(count, <<"version", "mkdirp">>)
               ELSE /\ pc' = [pc EXCEPT !["root"] = "done"]
                    /\ UNCHANGED count
            /\ UNCHANGED <<downloadCacheDirForVersion, shasums, cachedFile, failures, installs>>
       ELSE /\ downloadCacheDir' = Rejected(ErrMkdirpRoot)
            /\ pc' = [pc EXCEPT !["root"] = "done"]
            /\ Cascade(ErrMkdirpRoot)
            /\ installs' = SettleAll(installs, version, cachedFile')
            /\ UNCHANGED <<dirs, count>>
    /\ UNCHANGED <<files, session, ctor, versionSelector, version, index, isCached,
                   status, shasum>>

\* What the request callback of the index does with a response.
\*   "error": err is set; "status": statusCode is not 200; "content-type":
\*   not application/json; "json": JSON.parse throws; "shape": the body is
\*   JSON but index.map or release.version.replace throws in the callback,
\*   outside the try and outside the promise's executor: nothing settles.
IndexOutcomes == {"error", "status", "content-type", "json", "shape", "ok"}

\* if (satisfyingVersion === null)
IsNull_Never(sv) == FALSE

IsNull(sv) == sv = Null

\* The reason the callback rejects with ("": it does not reject).
IndexRejection(outcome, body, sel) ==
    CASE outcome = "error" -> ErrIndexRequest
      [] outcome = "status" -> ErrIndexStatus
      [] outcome = "content-type" -> ErrIndexContentType
      [] outcome = "json" -> ErrIndexJson
      [] outcome = "ok" /\ IsNull(satisfyingVersion(body, sel)) -> ErrNoVersion
      [] OTHER -> ""

IndexResponse(outcome, body) ==
    /\ pc["index"] = "request"
    /\ index' = [outcome |-> outcome, body |-> IF outcome = "ok" THEN body ELSE <<>>]
    /\ IF outcome = "shape"
       THEN /\ pc' = [pc EXCEPT !["index"] = "thrown"]
            /\ UNCHANGED <<version, downloadCacheDirForVersion, shasums, cachedFile,
                           failures, installs, count>>
       ELSE IF IndexRejection(outcome, body, versionSelector) # ""
       THEN /\ version' = Rejected(IndexRejection(outcome, body, versionSelector))
            /\ pc' = [pc EXCEPT !["index"] = "done"]
            /\ Cascade(version'.reason)
            /\ installs' = SettleAll(installs, version', cachedFile')
            /\ UNCHANGED count
       ELSE /\ version' = Resolved(VersionString(satisfyingVersion(body, versionSelector)))
            /\ IF VersionMkdirStarts(version', downloadCacheDir)
               THEN /\ pc' = [pc EXCEPT !["index"] = "done", !["version"] = "mkdirp"]
                    /\ count' = Bump(count, <<"version", "mkdirp">>)
               ELSE /\ pc' = [pc EXCEPT !["index"] = "done"]
                    /\ UNCHANGED count
            /\ UNCHANGED <<downloadCacheDirForVersion, shasums, cachedFile, failures, installs>>
    /\ UNCHANGED <<dirs, files, session, ctor, versionSelector, downloadCacheDir,
                   isCached, status, shasum>>

\* A callback that looks for the manifest though mkdirp has failed.
VersionMkdirpDone_GoesOn(ok) ==
    /\ pc["version"] = "mkdirp"
    /\ pc' = [pc EXCEPT !["version"] = "done", !["shasums"] = "exists"]
    /\ count' = Bump(count, <<"shasums", "exists">>)
    /\ IF ok
       THEN /\ dirs' = dirs \cup {VersionDir(downloadCacheDir.value, version.value)}
            /\ downloadCacheDirForVersion' =
                    Resolved(VersionDir(downloadCacheDir.value, version.value))
            /\ UNCHANGED <<shasums, cachedFile, failures, installs>>
       ELSE /\ Cascade(ErrMkdirpVersion)
            /\ installs' = SettleAll(installs, version, cachedFile')
            /\ UNCHANGED dirs
    /\ UNCHANGED <<files, session, ctor, versionSelector, downloadCacheDir, version,
                   index, isCached, status, shasum>>

\* The callback of mkdirp(cacheDir) for the version's directory; resolved,
\* it lets this._shasums start: fs.exists of the cached manifest.
VersionMkdirpDone(ok) ==
    /\ pc["version"] = "mkdirp"
    /\ IF ok
       THEN /\ dirs' = dirs \cup {VersionDir(downloadCacheDir.value, version.value)}
            /\ downloadCacheDirForVersion' =
                    Resolved(VersionDir(downloadCacheDir.value, version.value))
            /\ pc' = [pc EXCEPT !["version"] = "done", !["shasums"] = "exists"]
            /\ count' = Bump(count, <<"shasums", "exists">>)
            /\ UNCHANGED <<shasums, cachedFile, failures, installs>>
       ELSE /\ pc' = [pc EXCEPT !["version"] = "done"]
            /\ Cascade(ErrMkdirpVersion)
            /\ installs' = SettleAll(installs, version, cachedFile')
            /\ UNCHANGED <<dirs, count>>
    /\ UNCHANGED <<files, session, ctor, versionSelector, downloadCacheDir, version,
                   index, isCached, status, shasum>>

\* if (isCached) return resolve(...): an existing file is used as it is,
\* nothing is requested.
UseCached_Never(exists) == FALSE

UseCached(exists) == exists

\* An exists callback that, on a miss, opens the read stream of the parse
\* together with the write stream of the download.
ShasumsExists_ParseAtOnce ==
    /\ pc["shasums"] = "exists"
    /\ LET path == cachedShasumFilePath(downloadCacheDirForVersion.value)
       IN  /\ isCached' = [isCached EXCEPT !["shasums"] =
                                IF path \in DOMAIN files THEN "yes" ELSE "no"]
           /\ pc' = [pc EXCEPT !["shasums"] = "parse"]
           /\ IF path \in DOMAIN files
              THEN /\ count' = Bump(count, <<"shasums", "read">>)
                   /\ UNCHANGED files
              ELSE /\ count' = Bump(Bump(Bump(count, <<"shasums", "request">>),
                                         <<"shasums", "write">>), <<"shasums", "read">>)
                   /\ files' = [p \in DOMAIN files \cup {path} |->
                                    IF p = path THEN <<>> ELSE files[p]]
    /\ UNCHANGED <<dirs, session, ctor, versionSelector, downloadCacheDir, version,
                   downloadCacheDirForVersion, shasums, cachedFile, installs, index,
                   status, shasum, failures>>

\* The callback of fs.exists(cachedShasumFilePath): parse the cached file, or
\* request the manifest and pipe the response to the file.
ShasumsExists ==
    /\ pc["shasums"] = "exists"
    /\ LET path == cachedShasumFilePath(downloadCacheDirForVersion.value)
       IN  /\ isCached' = [isCached EXCEPT !["shasums"] =
                                IF path \in DOMAIN files THEN "yes" ELSE "no"]
           /\ IF UseCached(path \in DOMAIN files)
              THEN /\ pc' = [pc EXCEPT !["shasums"] = "parse"]
                   /\ count' = Bump(count, <<"shasums", "read">>)
              ELSE /\ pc' = [pc EXCEPT !["shasums"] = "download"]
                   /\ count' = Bump(Bump(count, <<"shasums", "request">>),
                                    <<"shasums", "write">>)
    /\ UNCHANGED <<dirs, files, session, ctor, versionSelector, downloadCacheDir, version,
                   downloadCacheDirForVersion, shasums, cachedFile, installs, index,
                   status, shasum, failures>>

\* How request(url).pipe(fs.createWriteStream(path)) ends.
\*   "request error": the request fails before a byte arrives, the stream
\*       has created the file, empty;
\*   "broken": the request fails after a part of the body was written;
\*   "write error": the stream cannot open the file;
\*   "finish": the whole body of the response is in the file.
PipeOutcomes == {"request error", "broken", "write error", "finish"}

\* The first line only.
PartialManifest(body) == SubSeq(body, 1, 1)

Store(f, path, content) == [p \in DOMAIN f \cup {path} |-> IF p = path THEN content ELSE f[p]]

ShasumsPipeDone(outcome, resp) ==
    /\ pc["shasums"] = "download"
    /\ LET path == cachedShasumFilePath(downloadCacheDirForVersion.value)
       IN  /\ files' = CASE outcome = "request error" -> Store(files, path, <<>>)
                         [] outcome = "broken" -> Store(files, path, PartialManifest(resp.body))
                         [] outcome = "write error" -> files
                         [] outcome = "finish" -> Store(files, path, resp.body)
           /\ status' = [status EXCEPT !["shasums"] =
                            IF outcome \in {"broken", "finish"} THEN resp.status ELSE 0]
    /\ IF outcome = "finish"
       THEN /\ pc' = [pc EXCEPT !["shasums"] = "parse"]
            /\ count' = Bump(count, <<"shasums", "read">>)
            /\ UNCHANGED <<downloadCacheDirForVersion, shasums, cachedFile, failures, installs>>
       ELSE /\ pc' = [pc EXCEPT !["shasums"] = "done"]
            /\ Cascade(IF outcome = "write error" THEN ErrShasumsWrite ELSE ErrShasumsRequest)
            /\ installs' = SettleAll(installs, version, cachedFile')
            /\ UNCHANGED count
    /\ UNCHANGED <<dirs, session, ctor, versionSelector, downloadCacheDir, version, index,
                   isCached, shasum>>

\* var expectedShasum = shasums[fileName]
\* if (expectedShasum === undefined) return reject(...)
MissingShasum_Ignored(m, name) == FALSE

MissingShasum(m, name) == name \notin DOMAIN m

expectedShasum(m, name) == IF name \in DOMAIN m THEN m[name] ELSE "undefined"

\* The "end" or "error" of parseShasumFile's stream.  With the manifest
\* resolved the functions of both _downloadAndCacheFile joins run, the
\* installer's first: each rejects for a missing digest or starts fs.exists.
ShasumsParseDone(ok) ==
    /\ pc["shasums"] = "parse"
    /\ IF ok
       THEN LET m == parseShasumFile(files[cachedShasumFilePath(downloadCacheDirForVersion.value)])
                missing == [a \in ArtifactSet |-> MissingShasum(m, fileName(a, version.value))]
            IN  /\ shasums' = ResolvedShasums(m)
                /\ cachedFile' = [a \in ArtifactSet |->
                                    IF missing[a] THEN Rejected(ErrMissing(a)) ELSE Pending]
                /\ pc' = [p \in Pipelines |->
                            IF p = "shasums" THEN "done"
                            ELSE IF p \in ArtifactSet
                                 THEN (IF missing[p] THEN "done" ELSE "exists")
                                 ELSE pc[p]]
                /\ count' = [o \in Ops |->
                                IF o[2] = "exists" /\ o[1] \in ArtifactSet /\ ~missing[o[1]]
                                THEN count[o] + 1 ELSE count[o]]
                /\ failures' = failures
                        \o (IF missing["installer"] THEN <<ErrMissing("installer")>> ELSE <<>>)
                        \o (IF missing["src"] THEN <<ErrMissing("src")>> ELSE <<>>)
                /\ UNCHANGED downloadCacheDirForVersion
       ELSE /\ pc' = [pc EXCEPT !["shasums"] = "done"]
            /\ Cascade(ErrShasumsRead)
            /\ UNCHANGED count
    /\ installs' = SettleAll(installs, version, cachedFile')
    /\ UNCHANGED <<dirs, files, session, ctor, versionSelector, downloadCacheDir, version,
                   index, isCached, status, shasum>>

cachedFilePath(a) == PathJoin(downloadCacheDirForVersion.value, fileName(a, version.value))

\* A settlement whose rejection cancels the other artifact's promise.
SettleFile_CancelOther(a, p) ==
    /\ cachedFile' = [b \in ArtifactSet |->
                        IF b = a THEN p
                        ELSE IF p.state = "rejected" THEN RejectPending(cachedFile[b], p.reason)
                        ELSE cachedFile[b]]
    /\ failures' = IF p.state = "rejected" THEN Append(failures, p.reason) ELSE failures
    /\ installs' = SettleAll(installs, version, cachedFile')

\* One artifact's promise settles: the other promises stay, the pending
\* install() calls hear of it.
SettleFile(a, p) ==
    /\ cachedFile' = [cachedFile EXCEPT ![a] = p]
    /\ failures' = IF p.state = "rejected" THEN Append(failures, p.reason) ELSE failures
    /\ installs' = SettleAll(installs, version, cachedFile')

\* An exists callback that resolves with the path of a cached file as it is.
FileExists_TrustCache(a) ==
    /\ pc[a] = "exists"
    /\ isCached' = [isCached EXCEPT ![a] =
                        IF cachedFilePath(a) \in DOMAIN files THEN "yes" ELSE "no"]
    /\ IF cachedFilePath(a) \in DOMAIN files
       THEN /\ pc' = [pc EXCEPT ![a] = "done"]
            /\ SettleFile(a, Resolved(cachedFilePath(a)))
            /\ UNCHANGED count
       ELSE /\ pc' = [pc EXCEPT ![a] = "download"]
            /\ count' = Bump(Bump(count, <<a, "request">>), <<a, "write">>)
            /\ UNCHANGED <<cachedFile, installs, failures>>
    /\ UNCHANGED <<dirs, files, session, ctor, versionSelector, downloadCacheDir, version,
                   downloadCacheDirForVersion, shasums, index, status, shasum>>

\* The callback of fs.exists(cachedFilePath): validate the cached file, or
\* request the artifact and pipe the response to the file.
FileExists(a) ==
    /\ pc[a] = "exists"
    /\ isCached' = [isCached EXCEPT ![a] =
                        IF cachedFilePath(a) \in DOMAIN files THEN "yes" ELSE "no"]
    /\ IF UseCached(cachedFilePath(a) \in DOMAIN files)
       THEN /\ pc' = [pc EXCEPT ![a] = "hash"]
            /\ count' = Bump(count, <<a, "read">>)
       ELSE /\ pc' = [pc EXCEPT ![a] = "download"]
            /\ count' = Bump(Bump(count, <<a, "request">>), <<a, "write">>)
    /\ UNCHANGED <<dirs, files, session, ctor, versionSelector, downloadCacheDir, version,
                   downloadCacheDirForVersion, shasums, cachedFile, installs, index,
                   status, shasum, failures>>

FilePipeDone(a, outcome, resp) ==
    /\ pc[a] = "download"
    /\ files' = CASE outcome = "request error" -> Store(files, cachedFilePath(a), "")
                  [] outcome = "broken" -> Store(files, cachedFilePath(a), Partial)
                  [] outcome = "write error" -> files
                  [] outcome = "finish" -> Store(files, cachedFilePath(a), resp.body)
    /\ status' = [status EXCEPT ![a] =
                    IF outcome \in {"broken", "finish"} THEN resp.status ELSE 0]
    /\ IF outcome = "finish"
       THEN /\ pc' = [pc EXCEPT ![a] = "hash"]
            /\ count' = Bump(count, <<a, "read">>)
            /\ UNCHANGED <<cachedFile, failures, installs>>
       ELSE /\ pc' = [pc EXCEPT ![a] = "done"]
            /\ SettleFile(a, Rejected(IF outcome = "write error" THEN ErrWrite(a)
                                      ELSE ErrRequest(a)))
            /\ UNCHANGED count
    /\ UNCHANGED <<dirs, session, ctor, versionSelector, downloadCacheDir, version,
                   downloadCacheDirForVersion, shasums, index, isCached, shasum>>

\* The "finish" handler of validateShasum: the promise of the digest's
\* comparison with the expected one.
validateShasum_Unchecked(a, path, digest, expected) == Resolved(path)

validateShasum(a, path, digest, expected) ==
    IF digest = expected THEN Resolved(path) ELSE Rejected(ErrMismatch(a))

\* A "finish" handler that removes a file whose digest is not the expected one.
HashDone_Unlinks(a, ok) ==
    /\ pc[a] = "hash"
    /\ pc' = [pc EXCEPT ![a] = "done"]
    /\ IF ok
       THEN /\ shasum' = [shasum EXCEPT ![a] = Sha256(files[cachedFilePath(a)])]
            /\ SettleFile(a, validateShasum(a, cachedFilePath(a), shasum'[a],
                                            expectedShasum(shasums.value,
                                                           fileName(a, version.value))))
            /\ files' = IF cachedFile'[a].state = "rejected"
                        THEN [f \in DOMAIN files \ {cachedFilePath(a)} |-> files[f]]
                        ELSE files
       ELSE /\ SettleFile(a, Rejected(ErrRead(a)))
            /\ UNCHANGED <<shasum, files>>
    /\ UNCHANGED <<dirs, session, ctor, versionSelector, downloadCacheDir, version,
                   downloadCacheDirForVersion, shasums, index, isCached, status, count>>

\* validateShasum's stream ends: "finish" with the digest of the file, or a
\* read error.
HashDone(a, ok) ==
    /\ pc[a] = "hash"
    /\ pc' = [pc EXCEPT ![a] = "done"]
    /\ IF ok
       THEN /\ shasum' = [shasum EXCEPT ![a] = Sha256(files[cachedFilePath(a)])]
            /\ SettleFile(a, validateShasum(a, cachedFilePath(a), shasum'[a],
                                            expectedShasum(shasums.value,
                                                           fileName(a, version.value))))
       ELSE /\ SettleFile(a, Rejected(ErrRead(a)))
            /\ UNCHANGED shasum
    /\ UNCHANGED <<dirs, files, session, ctor, versionSelector, downloadCacheDir, version,
                   downloadCacheDirForVersion, shasums, index, isCached, status, count>>

\* An install() that asks for the release index again.
Install_Refetch(throws) ==
    /\ ctor = "ok"
    /\ Len(installs) < MaxInstalls
    /\ installs' = Append(installs,
                          SettleCall([state |-> "pending", calls |-> <<>>, throws |-> throws],
                                     version, cachedFile))
    /\ count' = Bump(count, <<"index", "request">>)
    /\ UNCHANGED <<dirs, files, session, ctor, versionSelector, pc, downloadCacheDir,
                   version, downloadCacheDirForVersion, shasums, cachedFile, index,
                   isCached, status, shasum, failures>>

\* installer.install(installPath, cb); throws says whether cb throws when
\* it is invoked.
Install(throws) ==
    /\ ctor = "ok"
    /\ Len(installs) < MaxInstalls
    /\ installs' = Append(installs,
                          SettleCall([state |-> "pending", calls |-> <<>>, throws |-> throws],
                                     version, cachedFile))
    /\ UNCHANGED <<dirs, files, session, ctor, versionSelector, pc, downloadCacheDir,
                   version, downloadCacheDirForVersion, shasums, cachedFile, index,
                   isCached, status, shasum, count, failures>>

Next ==
    \/ \E sel \in Selectors : Construct(sel)
    \/ \E ok \in BOOLEAN : RootMkdirpDone(ok)
    \/ \E outcome \in IndexOutcomes, body \in IndexBodies : IndexResponse(outcome, body)
    \/ \E ok \in BOOLEAN : VersionMkdirpDone(ok)
    \/ ShasumsExists
    \/ \E outcome \in PipeOutcomes, resp \in ManifestResponses(version.value) :
            ShasumsPipeDone(outcome, resp)
    \/ \E ok \in BOOLEAN : ShasumsParseDone(ok)
    \/ \E a \in ArtifactSet : FileExists(a)
    \/ \E a \in ArtifactSet, outcome \in PipeOutcomes :
            \E resp \in FileResponses(fileUrl(version.value, fileName(a, version.value))) :
                FilePipeDone(a, outcome, resp)
    \/ \E a \in ArtifactSet, ok \in BOOLEAN : HashDone(a, ok)
    \/ \E throws \in BOOLEAN : Install(throws)

Spec == Init /\ [][Next]_vars

\* Every network request and every filesystem operation that is outstanding
\* completes, with success or with an error: the callback of each is taken
\* when it stays enabled.  Constructing an Installer and calling install()
\* are up to the caller.
Completion ==
    /\ WF_vars(\E ok \in BOOLEAN : RootMkdirpDone(ok))
    /\ WF_vars(\E outcome \in IndexOutcomes, body \in IndexBodies : IndexResponse(outcome, body))
    /\ WF_vars(\E ok \in BOOLEAN : VersionMkdirpDone(ok))
    /\ WF_vars(ShasumsExists)
    /\ WF_vars(\E outcome \in PipeOutcomes, resp \in ManifestResponses(version.value) :
                    ShasumsPipeDone(outcome, resp))
    /\ WF_vars(\E ok \in BOOLEAN : ShasumsParseDone(ok))
    /\ \A a \in ArtifactSet :
            /\ WF_vars(FileExists(a))
            /\ WF_vars(\E outcome \in PipeOutcomes :
                            \E resp \in FileResponses(fileUrl(version.value,
                                                              fileName(a, version.value))) :
                                FilePipeDone(a, outcome, resp))
            /\ WF_vars(\E ok \in BOOLEAN : HashDone(a, ok))

SpecLive == Spec /\ Completion

\* ------------------------------------------------------ version resolution
\* The specification of version resolution alone: an Installer constructed
\* with any of ResolveSelectors receives any index of at most MaxIndexLen
\* releases whose versions are drawn from ReleaseVersions.
ReleaseVersions ==
    { V(vs, ver[1], ver[2], ver[3]) :
        vs \in {0, 1}, ver \in {<<1, 2, 0>>, <<1, 2, 5>>, <<1, 3, 0>>, <<2, 0, 0>>} }

ResolveIndexes == UNION { [1..n -> ReleaseVersions] : n \in 0..MaxIndexLen }

ResolveSelectors ==
    { [kind |-> "caret", ver |-> <<1, 2, 0>>],
      [kind |-> "tilde", ver |-> <<1, 2, 0>>],
      [kind |-> "exact", ver |-> <<1, 2, 5>>],
      [kind |-> "major", ver |-> <<1, 0, 0>>],
      [kind |-> "any", ver |-> <<0, 0, 0>>],
      [kind |-> "caret", ver |-> <<99, 0, 0>>] }

InitResolve ==
    /\ dirs = {}
    /\ files = [f \in {} |-> ""]
    /\ session = 1
    /\ ctor = "ok"
    /\ versionSelector \in ResolveSelectors
    /\ pc = [p \in Pipelines |->
                IF p = "root" THEN "mkdirp" ELSE IF p = "index" THEN "request" ELSE "idle"]
    /\ downloadCacheDir = Pending
    /\ version = Pending
    /\ downloadCacheDirForVersion = Pending
    /\ shasums = PendingShasums
    /\ cachedFile = [a \in ArtifactSet |-> Pending]
    /\ installs = <<>>
    /\ index = NoIndex
    /\ isCached = [t \in Targets |-> "unknown"]
    /\ status = [t \in Targets |-> 0]
    /\ shasum = [a \in ArtifactSet |-> ""]
    /\ count = [o \in Ops |->
                IF o \in {<<"root", "mkdirp">>, <<"index", "request">>} THEN 1 ELSE 0]
    /\ failures = <<>>

NextResolve == \E body \in ResolveIndexes : IndexResponse("ok", body)

SpecResolve == InitResolve /\ [][NextResolve]_vars

\* --------------------------------------------------------- manifest parsing
\* The specification of parseShasumFile alone: the version's directory holds
\* a manifest of at most MaxLines lines drawn from ManifestLines, fs.exists
\* has found it, and its read stream is open.
Blanks(n) == [i \in 1..n |-> " "]

\* digest, gap blanks, name, trail blanks.
EntryLine(digest, gap, name, trail) == <<digest>> \o Blanks(gap) \o <<name>> \o Blanks(trail)

ParseVersion == "1.3.0"

ParseNames == {installerFileName(ParseVersion), srcFileName(ParseVersion)}

ParseDigests == {Sha256("one"), Sha256("two")}

EntryLines ==
    { EntryLine(Sha256("one"), 2, installerFileName(ParseVersion), 0),
      EntryLine(Sha256("two"), 1, installerFileName(ParseVersion), 1),
      EntryLine(Sha256("one"), 2, srcFileName(ParseVersion), 0) }

\* The empty line, a line without a blank, a comment without a blank.
UnseparatedLines == { <<>>, <<"5a:one-file">>, <<"#comment">>, <<" ">> }

\* A comment with a blank in it, and a line of three blanks.
CommentLine == <<"#", " ", "comment">>

BlanksLine == Blanks(3)

ManifestLines == EntryLines \cup UnseparatedLines \cup {CommentLine, BlanksLine}

Manifests == UNION { [1..n -> ManifestLines] : n \in 0..MaxLines }

InitParse ==
    /\ dirs = {CacheRoot, VersionDir(CacheRoot, ParseVersion)}
    /\ \E lines \in Manifests :
            files = [f \in {cachedShasumFilePath(VersionDir(CacheRoot, ParseVersion))} |-> lines]
    /\ session = 1
    /\ ctor = "ok"
    /\ versionSelector = [kind |-> "caret", ver |-> <<1, 2, 0>>]
    /\ pc = [p \in Pipelines |->
                IF p = "shasums" THEN "parse" ELSE IF p \in ArtifactSet THEN "idle" ELSE "done"]
    /\ downloadCacheDir = Resolved(CacheRoot)
    /\ version = Resolved(ParseVersion)
    /\ downloadCacheDirForVersion = Resolved(VersionDir(CacheRoot, ParseVersion))
    /\ shasums = PendingShasums
    /\ cachedFile = [a \in ArtifactSet |-> Pending]
    /\ installs = <<>>
    /\ index = [outcome |-> "ok", body |-> <<V(1, 1, 2, 0), V(1, 1, 3, 0), V(1, 1, 2, 5)>>]
    /\ isCached = [t \in Targets |-> IF t = "shasums" THEN "yes" ELSE "unknown"]
    /\ status = [t \in Targets |-> 0]
    /\ shasum = [a \in ArtifactSet |-> ""]
    /\ count = [o \in Ops |->
                IF o \in {<<"root", "mkdirp">>, <<"index", "request">>, <<"version", "mkdirp">>,
                          <<"shasums", "exists">>, <<"shasums", "read">>}
                THEN 1 ELSE 0]
    /\ failures = <<>>

NextParse == \E ok \in BOOLEAN : ShasumsParseDone(ok)

SpecParse == InitParse /\ [][NextParse]_vars

\* ------------------------------------------------------------ properties
\* The digest the manifest of the session records for an artifact.
Expected(a) == expectedShasum(shasums.value, fileName(a, version.value))

\* An artifact's file has been hashed in this session, the digest is the one
\* of the file on disk and equals the manifest's entry for its name.
Verified(a) ==
    /\ count[<<a, "read">>] = 1
    /\ shasum[a] # ""
    /\ cachedFilePath(a) \in DOMAIN files
    /\ shasum[a] = Sha256(files[cachedFilePath(a)])
    /\ shasums.state = "resolved"
    /\ fileName(a, version.value) \in DOMAIN shasums.value
    /\ shasum[a] = shasums.value[fileName(a, version.value)]

\* An install() call whose callback has been invoked with (null, installation).
Succeeded(c) == \E k \in 1..Len(c.calls) : c.calls[k].err = "null"

\* C1: an artifact's promise is resolved, with the local path, only when the
\* file on disk has been hashed in this session and the digest equals the
\* manifest's entry, whether fs.exists found the file or it was downloaded;
\* and a callback of install() has been invoked with success only when both
\* artifacts are resolved and verified.
C1_VerificationAlwaysRuns ==
    /\ \A a \in ArtifactSet :
            cachedFile[a].state = "resolved" =>
                /\ Verified(a)
                /\ isCached[a] \in {"yes", "no"}
                /\ cachedFile[a].value = cachedFilePath(a)
    /\ \A i \in DOMAIN installs :
            Succeeded(installs[i]) =>
                \A a \in ArtifactSet : cachedFile[a].state = "resolved" /\ Verified(a)

\* install() has reported success in a session that found the installer in
\* the cache and downloaded the source archive.
C1_Witness ==
    /\ \E i \in DOMAIN installs : Succeeded(installs[i])
    /\ isCached["installer"] = "yes"
    /\ isCached["src"] = "no"

\* The pipeline of an artifact has ended and none of its streams failed.
NoIoError(a) ==
    /\ pc[a] = "done"
    /\ isCached[a] # "unknown"
    /\ cachedFile[a].reason \notin {ErrRequest(a), ErrWrite(a), ErrRead(a)}

\* C2: when fs.exists finds the artifact's file in the version's cache
\* directory, no request for the artifact is issued and no file is written in
\* the session; and when the content of that file hashes to the manifest's
\* digest the artifact's promise is resolved with the path of the file.
C2_CacheHitNoRequest ==
    \A a \in ArtifactSet :
        isCached[a] = "yes" =>
            /\ count[<<a, "request">>] = 0
            /\ count[<<a, "write">>] = 0
            /\ status[a] = 0
            /\ (NoIoError(a) /\ Sha256(files[cachedFilePath(a)]) = Expected(a)) =>
                    cachedFile[a] = Resolved(cachedFilePath(a))

\* Both artifacts were in the cache and are resolved.
C2_Witness ==
    \A a \in ArtifactSet :
        /\ isCached[a] = "yes"
        /\ cachedFile[a] = Resolved(cachedFilePath(a))
        /\ count[<<a, "request">>] = 0

\* The file of an artifact, found in the cache or just downloaded, has been
\* read and its content does not hash to the manifest's digest.
Corrupt(a) ==
    /\ NoIoError(a)
    /\ cachedFilePath(a) \in DOMAIN files
    /\ Sha256(files[cachedFilePath(a)]) # Expected(a)

\* Nothing is requested or written for an artifact beyond its one download
\* on a cache miss; the file is read once.
NoRepair(a) ==
    /\ count[<<a, "request">>] = (IF isCached[a] = "yes" THEN 0 ELSE 1)
    /\ count[<<a, "write">>] = (IF isCached[a] = "yes" THEN 0 ELSE 1)
    /\ count[<<a, "read">>] = 1

Other(a) == IF a = "installer" THEN "src" ELSE "installer"

\* C3 as stated: a file whose digest differs from the manifest's makes the
\* artifact fail with the checksum mismatch, every install() call reports
\* that very error, and nothing is downloaded to repair the file.
C3_Original ==
    \A a \in ArtifactSet :
        Corrupt(a) =>
            /\ cachedFile[a] = Rejected(ErrMismatch(a))
            /\ \A i \in DOMAIN installs : installs[i].calls = <<CbError(ErrMismatch(a))>>
            /\ NoRepair(a)

\* C3: a file whose digest differs from the manifest's makes the artifact
\* fail with the checksum mismatch, even when the file was found in the
\* cache; every install() call reports exactly one error, which is that
\* mismatch or, when the other artifact has failed as well, the error of
\* the other artifact; and nothing is downloaded to repair the file.
C3_CorruptionDetected ==
    \A a \in ArtifactSet :
        Corrupt(a) =>
            /\ cachedFile[a] = Rejected(ErrMismatch(a))
            /\ \A i \in DOMAIN installs :
                    \/ installs[i].calls = <<CbError(ErrMismatch(a))>>
                    \/ /\ cachedFile[Other(a)].state = "rejected"
                       /\ installs[i].calls = <<CbError(cachedFile[Other(a)].reason)>>
            /\ NoRepair(a)

\* The installer found in the cache is corrupt and install() has reported
\* the mismatch.
C3_Witness ==
    /\ isCached["installer"] = "yes"
    /\ Corrupt("installer")
    /\ \E i \in DOMAIN installs : installs[i].calls = <<CbError(ErrMismatch("installer"))>>

\* The parsed manifest has no entry for the artifact's file name.
Unlisted(a) ==
    /\ shasums.state = "resolved"
    /\ fileName(a, version.value) \notin DOMAIN shasums.value

\* C4: an artifact whose file name the parsed manifest does not list fails
\* with the missing-checksum error, and for it no fs.exists, no request, no
\* write and no read is ever started; no install() call reports success.
C4_MissingChecksumFatal ==
    \A a \in ArtifactSet :
        Unlisted(a) =>
            /\ cachedFile[a] = Rejected(ErrMissing(a))
            /\ \A kind \in {"exists", "request", "write", "read"} : count[<<a, kind>>] = 0
            /\ isCached[a] = "unknown" /\ status[a] = 0 /\ shasum[a] = ""
            /\ \A i \in DOMAIN installs :
                    /\ ~Succeeded(installs[i])
                    /\ installs[i].state = "settled"

\* The manifest lacks the source archive, the installer is verified, and an
\* install() call has reported the missing checksum.
C4_Witness ==
    /\ Unlisted("src")
    /\ cachedFile["installer"].state = "resolved"
    /\ \E i \in DOMAIN installs : installs[i].calls = <<CbError(ErrMissing("src"))>>

\* The releases of an index that satisfy a selector, by position.
SatisfyingEntries(body, sel) == {i \in 1..Len(body) : satisfies(StripV(body[i]), sel)}

\* The orders the entries of an index of n releases can come in.
Orders(n) == {p \in [1..n -> 1..n] : \A i, j \in 1..n : p[i] = p[j] => i = j}

\* C5: when releases of the index satisfy the selector, the version resolves
\* to the string, without its leading "v", of a satisfying release that no
\* satisfying release exceeds in semantic-version order, and the same string
\* results from the same releases in any other order.
C5_HighestSatisfyingWins ==
    LET body == index.body
        sat == SatisfyingEntries(body, versionSelector)
    IN  (index.outcome = "ok" /\ sat # {}) =>
            /\ version.state = "resolved"
            /\ \E i \in sat :
                    /\ version.value = VersionString(StripV(body[i]))
                    /\ \A j \in sat : compare(StripV(body[j]).ver, StripV(body[i]).ver) <= 0
            /\ \A p \in Orders(Len(body)) :
                    VersionString(satisfyingVersion([k \in 1..Len(body) |-> body[p[k]]],
                                                    versionSelector)) = version.value

\* The index v1.2.0, v1.3.0, v1.2.5 resolves ^1.2.0 to 1.3.0: neither the
\* first satisfying release nor the last.
C5_Witness ==
    /\ index.outcome = "ok"
    /\ index.body = <<V(1, 1, 2, 0), V(1, 1, 3, 0), V(1, 1, 2, 5)>>
    /\ versionSelector = [kind |-> "caret", ver |-> <<1, 2, 0>>]
    /\ version = Resolved("1.3.0")

\* The index arrived and none of its releases satisfies the selector.
NoneSatisfies ==
    /\ index.outcome = "ok"
    /\ SatisfyingEntries(index.body, versionSelector) = {}

\* C6 as stated: with no satisfying release the version is rejected with the
\* no-satisfying-version error and every install() call delivers that error.
C6_Original ==
    NoneSatisfies =>
        /\ version = Rejected(ErrNoVersion)
        /\ \A i \in DOMAIN installs : installs[i].calls = <<CbError(ErrNoVersion)>>

\* C6: with no satisfying release the version is rejected with the
\* no-satisfying-version error, and a resolved version is always the string
\* of a satisfying release; every install() call delivers exactly one error:
\* that one or, when creating the root cache directory has failed, the error
\* of mkdirp.
C6_NoSatisfyingVersion ==
    /\ NoneSatisfies =>
        /\ version = Rejected(ErrNoVersion)
        /\ \A i \in DOMAIN installs :
                \/ installs[i].calls = <<CbError(ErrNoVersion)>>
                \/ /\ downloadCacheDir = Rejected(ErrMkdirpRoot)
                   /\ installs[i].calls = <<CbError(ErrMkdirpRoot)>>
    /\ version.state = "resolved" =>
            \E i \in SatisfyingEntries(index.body, versionSelector) :
                version.value = VersionString(StripV(index.body[i]))

\* No release satisfies, the root cache directory exists, and install() has
\* delivered the no-satisfying-version error.
C6_Witness ==
    /\ NoneSatisfies
    /\ downloadCacheDir.state = "resolved"
    /\ \E i \in DOMAIN installs : installs[i].calls = <<CbError(ErrNoVersion)>>

\* C7 as stated: no operation is started twice, and a session that has come
\* to rest has requested the index, created both directories and checked
\* for the manifest exactly once.
C7_Original ==
    ctor = "ok" =>
        /\ \A o \in Ops : count[o] <= 1
        /\ Quiescent =>
            /\ count[<<"index", "request">>] = 1
            /\ count[<<"root", "mkdirp">>] = 1
            /\ count[<<"version", "mkdirp">>] = 1
            /\ count[<<"shasums", "exists">>] = 1

\* C7: in a session, whatever the number of install() calls, the index is
\* requested and the root cache directory created exactly once; the
\* version's directory is created once when the version and the root
\* directory have resolved and not otherwise; the manifest is looked for once
\* when the version's directory has resolved and not otherwise, and
\* requested once when it was not found and not otherwise; per artifact
\* there is at most one fs.exists, one request, one write and one read.
C7_AtMostOnce ==
    ctor = "ok" =>
        /\ count[<<"index", "request">>] = 1
        /\ count[<<"root", "mkdirp">>] = 1
        /\ count[<<"version", "mkdirp">>] =
                (IF version.state = "resolved" /\ downloadCacheDir.state = "resolved"
                 THEN 1 ELSE 0)
        /\ count[<<"shasums", "exists">>] =
                (IF downloadCacheDirForVersion.state = "resolved" THEN 1 ELSE 0)
        /\ count[<<"shasums", "request">>] = (IF isCached["shasums"] = "no" THEN 1 ELSE 0)
        /\ count[<<"shasums", "write">>] = count[<<"shasums", "request">>]
        /\ \A o \in Ops : count[o] <= 1

\* Two install() calls have succeeded in a session that downloaded the
\* manifest and both artifacts, each once.
C7_Witness ==
    /\ Len(installs) >= 2
    /\ \A i \in DOMAIN installs : Succeeded(installs[i])
    /\ \A t \in Targets : isCached[t] = "no" /\ count[<<t, "request">>] = 1
    /\ count[<<"version", "mkdirp">>] = 1

\* C8 as stated: once a computation has failed, every install() call has
\* delivered exactly one error, the one of the failure that occurred first,
\* and no success; and an index whose body makes the callback throw is such
\* a failure.
C8_Original ==
    \A i \in DOMAIN installs :
        /\ failures # <<>> => installs[i].calls = <<CbError(failures[1])>>
        /\ (pc["index"] = "thrown" /\ Quiescent) =>
                /\ Len(installs[i].calls) = 1
                /\ installs[i].calls[1].err # "null"

\* C9 as stated: a success hands the callback the resolved version and the
\* verified paths of the installer and of the source archive.
C9_Original ==
    \A i \in DOMAIN installs :
        \A k \in 1..Len(installs[i].calls) :
            installs[i].calls[k].err = "null" =>
                installs[i].calls[k].installation =
                    [version |-> version.value,
                     installerFile |-> installerFile.value,
                     srcFile |-> srcFile.value]

\* C10 as stated: a status other than 200 rejects the version with the
\* status error; a manifest or artifact response with a status other than
\* 200 is not written to the cache file, and its computation fails with the
\* network error.
C10_Original ==
    /\ index.outcome = "status" => version = Rejected(ErrIndexStatus)
    /\ status["shasums"] \notin {0, 200} =>
            /\ cachedShasumFilePath(downloadCacheDirForVersion.value) \notin DOMAIN files
            /\ shasums.state = "rejected" /\ shasums.reason = ErrShasumsRequest
    /\ \A a \in ArtifactSet :
            status[a] \notin {0, 200} =>
                /\ cachedFilePath(a) \notin DOMAIN files
                /\ cachedFile[a] = Rejected(ErrRequest(a))

\* C11 as stated: a file whose digest equals the manifest's entry up to the
\* case of the hex letters is accepted, its artifact resolves with its path.
C11_Original ==
    \A a \in ArtifactSet :
        (pc[a] = "done" /\ shasum[a] # "" /\ LowerCase(Expected(a)) = LowerCase(shasum[a])) =>
            cachedFile[a] = Resolved(cachedFilePath(a))

\* C12: constructing an Installer with a selector that is no semantic-version
\* range throws in the constructor, and nothing has been started by then: no
\* mkdirp, no request, no fs.exists, no stream; every pipeline is idle, there
\* is no Installer to call install() on, and the step leaves the disk as it
\* was.
C12_FailFastConstruction ==
    (session > 0 /\ versionSelector.kind = "invalid") =>
        /\ ctor = "threw"
        /\ \A o \in Ops : count[o] = 0
        /\ \A p \in Pipelines : pc[p] = "idle"
        /\ installs = <<>>
        /\ ~ENABLED (RootMkdirpDone(TRUE) \/ RootMkdirpDone(FALSE))
        /\ ~ENABLED (\E outcome \in IndexOutcomes, body \in IndexBodies :
                        IndexResponse(outcome, body))

\* The second Installer is constructed with an invalid selector, over the
\* cache directory the first one made.
C12_Witness ==
    /\ session = 2
    /\ versionSelector.kind = "invalid"
    /\ ctor = "threw"
    /\ CacheRoot \in dirs

\* The manifest the session has read to its end.
ParsedLines == files[cachedShasumFilePath(downloadCacheDirForVersion.value)]

ParseEnded == pc["shasums"] = "done" /\ ErrShasumsRead \notin {failures[i] : i \in DOMAIN failures}

\* What a line of ManifestLines is read as, <<digest, name>> or <<>> for a
\* line that is skipped: as C13 states it, only the lines of the form
\* digest, whitespace, name are entries.
StatedParts(line) ==
    IF line \in EntryLines
    THEN CHOOSE e \in ParseDigests \X ParseNames :
            \E gap \in 1..2, trail \in 0..1 : line = EntryLine(e[1], gap, e[2], trail)
    ELSE <<>>

\* As the pattern reads it: a line with a blank between two characters is
\* an entry whatever the characters are.
MatchedParts(line) ==
    IF line = CommentLine THEN <<"#", "comment">>
    ELSE IF line = BlanksLine THEN <<" ", " ">>
    ELSE StatedParts(line)

\* The last line of lines that parts(_) reads as an entry for name (0: none).
LastEntry(lines, name, parts(_)) ==
    LET E == {i \in 1..Len(lines) : parts(lines[i]) # <<>> /\ parts(lines[i])[2] = name}
    IN  IF E = {} THEN 0 ELSE CHOOSE i \in E : \A j \in E : j <= i

\* m maps every name of an entry of lines to the digest of the last entry
\* of that name, and nothing else.
MapsLastEntries(m, lines, parts(_)) ==
    /\ DOMAIN m = {parts(lines[i])[2] : i \in {j \in 1..Len(lines) : parts(lines[j]) # <<>>}}
    /\ \A name \in DOMAIN m : m[name] = parts(lines[LastEntry(lines, name, parts)])[1]

ShasumsPath == cachedShasumFilePath(downloadCacheDirForVersion.value)

\* C14: when fs.exists finds the manifest in the version's directory, the
\* file is parsed and the session requests and writes no manifest; when it
\* does not, one request and one write are started, and the parse starts
\* only when the write has finished: the file then holds the whole body of
\* the response.  The manifest is read once, and a resolved manifest is the
\* parse of the file on disk.
C14_ManifestCacheHit ==
    /\ isCached["shasums"] = "unknown" =>
            \A kind \in {"request", "write", "read"} : count[<<"shasums", kind>>] = 0
    /\ isCached["shasums"] = "yes" =>
            /\ count[<<"shasums", "request">>] = 0
            /\ count[<<"shasums", "write">>] = 0
            /\ status["shasums"] = 0
            /\ count[<<"shasums", "read">>] = 1
            /\ pc["shasums"] \in {"parse", "done"}
    /\ isCached["shasums"] = "no" =>
            /\ count[<<"shasums", "request">>] = 1
            /\ count[<<"shasums", "write">>] = 1
            /\ count[<<"shasums", "read">>] <= 1
            /\ count[<<"shasums", "read">>] = 1 =>
                    /\ pc["shasums"] \in {"parse", "done"}
                    /\ ShasumsPath \in DOMAIN files
                    /\ files[ShasumsPath] \in {r.body : r \in ManifestResponses(version.value)}
                    /\ status["shasums"] # 0
    /\ shasums.state = "resolved" =>
            /\ count[<<"shasums", "read">>] = 1
            /\ shasums.value = parseShasumFile(files[ShasumsPath])

\* The second session finds the manifest the first one downloaded, and has
\* parsed it without a request.
C14_Witness ==
    /\ session = 2
    /\ isCached["shasums"] = "yes"
    /\ shasums.state = "resolved"
    /\ status["shasums"] = 0
    /\ files[ShasumsPath] = GoodManifest(version.value)

\* Some operation of the pipeline what has been started in this session.
Started(what) == \E o \in Ops : o[1] = what /\ count[o] > 0

\* C15: mkdirp of the version's directory is started only with the version
\* resolved and the root cache directory made; the manifest's fs.exists,
\* request, write and read only with the version's directory made; and an
\* artifact's fs.exists, request, write and read only with the version
\* resolved, the version's directory made and the manifest parsed to its
\* end.
C15_DependencyOrdering ==
    /\ Started("version") =>
            /\ version.state = "resolved"
            /\ downloadCacheDir = Resolved(CacheRoot)
            /\ CacheRoot \in dirs
    /\ Started("shasums") =>
            /\ version.state = "resolved"
            /\ downloadCacheDirForVersion = Resolved(VersionDir(CacheRoot, version.value))
            /\ VersionDir(CacheRoot, version.value) \in dirs
            /\ pc["version"] = "done"
    /\ \A a \in ArtifactSet :
            Started(a) =>
                /\ version.state = "resolved"
                /\ downloadCacheDirForVersion.state = "resolved"
                /\ VersionDir(CacheRoot, version.value) \in dirs
                /\ shasums.state = "resolved"
                /\ pc["shasums"] = "done"
                /\ shasums.value = parseShasumFile(files[ShasumsPath])

\* The installer is being downloaded while fs.exists of the source archive
\* has not answered yet.
C15_Witness ==
    /\ pc["installer"] = "download"
    /\ pc["src"] = "exists"
    /\ shasums.state = "resolved"

\* The pipeline of an artifact is between its start and its settlement.
InFlight(a) == pc[a] \in {"exists", "download", "hash"}

\* C16: whatever the state of the other artifact is, pending, resolved or
\* rejected, an artifact whose fs.exists is outstanding gets its answer, one
\* that is downloading can finish its download, one that is being hashed can
\* finish the hashing, and its promise is pending until it settles itself:
\* the other's failure neither stops nor rejects it.
C16_IndependentBranches ==
    \A a \in ArtifactSet :
        /\ InFlight(a) => cachedFile[a] = Pending
        /\ pc[a] = "exists" => ENABLED FileExists(a)
        /\ pc[a] = "download" =>
                ENABLED FilePipeDone(a, "finish",
                                     [status |-> 200,
                                      body |-> Genuine(fileUrl(version.value,
                                                               fileName(a, version.value)))])
        /\ pc[a] = "hash" => ENABLED HashDone(a, TRUE)

\* The installer has failed, install() has reported its error, and the
\* download of the source archive, started at the same time, goes on.
C16_Witness ==
    /\ cachedFile["installer"].state = "rejected"
    /\ isCached["installer"] = "no"
    /\ \E i \in DOMAIN installs : installs[i].calls = <<CbError(cachedFile["installer"].reason)>>
    /\ pc["src"] = "download"
    /\ cachedFile["src"] = Pending

\* Nothing has been started for an artifact, and its promise is rejected
\* with the reason given.
ShortCircuited(a, r) ==
    /\ ~Started(a)
    /\ pc[a] = "idle"
    /\ isCached[a] = "unknown"
    /\ cachedFile[a] = Rejected(r)

\* C17: with the version rejected, mkdirp of the version's directory is
\* never started, nor any fs.exists, request, write or read of the manifest
\* or of an artifact; with the version's directory or the manifest rejected,
\* no fs.exists, request, write or read of an artifact is ever started (nor,
\* without the directory, of the manifest); the dependents are rejected
\* with the reason of the failure they depend on.
C17_FailureShortCircuits ==
    /\ version.state = "rejected" =>
            /\ ~Started("version")
            /\ ~Started("shasums")
            /\ downloadCacheDirForVersion.state = "rejected"
            /\ shasums.state = "rejected"
            /\ \A a \in ArtifactSet : ShortCircuited(a, shasums.reason)
    /\ downloadCacheDirForVersion.state = "rejected" =>
            /\ ~Started("shasums")
            /\ shasums = RejectPending(PendingShasums, downloadCacheDirForVersion.reason)
            /\ \A a \in ArtifactSet : ShortCircuited(a, downloadCacheDirForVersion.reason)
    /\ shasums.state = "rejected" =>
            \A a \in ArtifactSet : ShortCircuited(a, shasums.reason)

\* The version's directory was made, reading the manifest failed, install()
\* has reported it, and nothing was started for the artifacts.
C17_Witness ==
    /\ downloadCacheDirForVersion.state = "resolved"
    /\ shasums.state = "rejected"
    /\ shasums.reason = ErrShasumsRead
    /\ \A a \in ArtifactSet : ShortCircuited(a, ErrShasumsRead)
    /\ \E i \in DOMAIN installs : installs[i].calls = <<CbError(ErrShasumsRead)>>

\* The path of the file of a target of the session.
TargetPath(t) == IF t = "shasums" THEN ShasumsPath ELSE cachedFilePath(t)

\* A step leaves every file and directory of the cache as it is, and a file
\* it adds is the file of a target whose fs.exists answered no and whose
\* download is the step.
WriteOnce ==
    /\ dirs \subseteq dirs'
    /\ \A f \in DOMAIN files : f \in DOMAIN files' /\ files'[f] = files[f]
    /\ \A f \in DOMAIN files' \ DOMAIN files :
            \E t \in Targets :
                /\ f = TargetPath(t)
                /\ pc[t] = "download"
                /\ isCached[t] = "no"
                /\ count[<<t, "write">>] = 1

\* The file of an artifact of the release, in the cache.
ReleasePath(a) == PathJoin(VersionDir(CacheRoot, ParseVersion), fileName(a, ParseVersion))

\* A download of an earlier session broke off and left a part of the file.
PartialFromBefore(a) ==
    /\ session = 2
    /\ ReleasePath(a) \in DOMAIN files
    /\ files[ReleasePath(a)] = Partial
    /\ count[<<a, "write">>] = 0

\* The session found the artifact's file in the cache and the file does not
\* hash to the manifest's digest.
BadInCache(a) ==
    /\ isCached[a] = "yes"
    /\ Sha256(files[cachedFilePath(a)]) # Expected(a)

C19_Original ==
    \A n \in 1..MaxSessions :
        /\ [](session = n /\ ctor = "ok" =>
                <>(session = n /\ version.state # "pending"))
        /\ \A i \in 1..MaxInstalls :
                []((session = n /\ i \in DOMAIN installs) =>
                    <>(session = n /\ i \in DOMAIN installs /\ installs[i].calls # <<>>))

\* C20 as stated: the callback of an install() call is invoked at most once,
\* with an installation or with an error, also when it throws while it is
\* invoked with the installation.
C20_Original ==
    \A i \in DOMAIN installs :
        /\ Len(installs[i].calls) <= 1
        /\ \A k \in DOMAIN installs[i].calls :
                (installs[i].calls[k].err = "null")
                    # (installs[i].calls[k].installation = NoInstallation)

====
